---- MODULE Spec2Model ----
(***************************************************************************)
(* Text-to-speech adapter of transformrs (src/src/text_to_speech.rs).      *)
(*                                                                         *)
(* Representation.                                                         *)
(*   Option<T>     : <<>> is None, <<x>> is Some(x).                       *)
(*   Result / abort: [ok |-> v], [err |-> e], [panic |-> m]; a panic is    *)
(*                   the fatal abort of expect / unwrap / panic!.          *)
(*   serde Value   : [null |-> TRUE], [bool |-> b], [num |-> n] (an        *)
(*                   integer), [str |-> s], [arr |-> seq],                 *)
(*                   [obj |-> function from key to Value].                 *)
(*   Characters    : a char is its Unicode code point, an integer (34 is   *)
(*                   the quote, 8 the backspace, 233 e-acute).             *)
(*   Strings       : a string of a response, whose characters the code     *)
(*                   inspects or prints, is a sequence of characters;      *)
(*                   Chars(<<"a", "b">>) writes the string "ab".  A string *)
(*                   of a request (text, model, voice, key, URL segment),  *)
(*                   which the code only moves around, is a TLA+ string,   *)
(*                   and a formatted URL is the sequence of the segments   *)
(*                   format! concatenates.  The keys of an object follow   *)
(*                   the same rule: character sequences in a response,     *)
(*                   TLA+ strings in a request body.                       *)
(*   Bytes         : a sequence of integers 0..255.  The bytes of an HTTP  *)
(*                   response are [json |-> v] when serde_json parses them *)
(*                   to the Value v and [raw |-> b] when it does not.      *)
(***************************************************************************)
EXTENDS Integers, Sequences, FiniteSets, TLC

VARIABLES
    pc, args, url, body, headers, posts, net, ret, parsed,
    sr, out, op,
    raw, text, dprov, dec, dstage

vars == <<pc, args, url, body, headers, posts, net, ret, parsed,
          sr, out, op, raw, text, dprov, dec, dstage>>
callVars == <<pc, args, url, body, headers, posts, net, ret, parsed>>
parseVars == <<sr, out, op>>
decodeVars == <<raw, text, dprov, dec, dstage>>

(***************************************************************************)
(* Bounds                                                                  *)
(***************************************************************************)
\* Longest byte sequence that is encoded and decoded.
MaxLen == 3

(***************************************************************************)
(* Option, Result                                                          *)
(***************************************************************************)
None == <<>>
Some(x) == <<x>>
IsSome(o) == Len(o) = 1
Unwrap(o) == o[1]

Ok(v) == [ok |-> v]
Err(e) == [err |-> e]
Panic(m) == [panic |-> m]
IsOk(r) == DOMAIN r = {"ok"}
IsErr(r) == DOMAIN r = {"err"}
IsPanic(r) == DOMAIN r = {"panic"}

(***************************************************************************)
(* Provider, Key                                                           *)
(***************************************************************************)
SupportedProviders == {"DeepInfra", "Hyperbolic", "OpenAI", "Google"}
\* A provider of the crate that the text-to-speech adapter has no branch for.
UnsupportedProviders == {"Groq"}
Providers == SupportedProviders \cup UnsupportedProviders

\* Provider::domain(): one fixed base URL per provider.
domain(provider) ==
    CASE provider = "DeepInfra" -> "https://api.deepinfra.com"
      [] provider = "Hyperbolic" -> "https://api.hyperbolic.xyz"
      [] provider = "OpenAI" -> "https://api.openai.com"
      [] provider = "Google" -> "https://generativelanguage.googleapis.com"
      [] OTHER -> "https://api.groq.com"

(***************************************************************************)
(* address(key, model)                                                     *)
(***************************************************************************)
DefaultDeepInfraModel == "hexgrad/Kokoro-82M"
GoogleDomain == "https://texttospeech.googleapis.com"
GooglePath == "/v1beta1/text:synthesize"

addressIgnoringModel(key, model) ==
    IF key.provider = "DeepInfra"
    THEN Ok(<<domain(key.provider), "/v1/inference/", DefaultDeepInfraModel>>)
    ELSE IF key.provider = "Hyperbolic"
    THEN Ok(<<domain(key.provider), "/v1/audio/generation">>)
    ELSE IF key.provider = "OpenAI"
    THEN Ok(<<domain(key.provider), "/v1/audio/speech">>)
    ELSE IF key.provider = "Google"
    THEN Ok(<<GoogleDomain, GooglePath, "?key=", key.key>>)
    ELSE Panic("Unsupported TTS provider")

address(key, model) ==
    IF key.provider = "DeepInfra"
    THEN LET m == IF IsSome(model) THEN Unwrap(model) ELSE DefaultDeepInfraModel
         IN  Ok(<<domain(key.provider), "/v1/inference/", m>>)
    ELSE IF key.provider = "Hyperbolic"
    THEN Ok(<<domain(key.provider), "/v1/audio/generation">>)
    ELSE IF key.provider = "OpenAI"
    THEN Ok(<<domain(key.provider), "/v1/audio/speech">>)
    ELSE IF key.provider = "Google"
    THEN Ok(<<GoogleDomain, GooglePath, "?key=", key.key>>)
    ELSE Panic("Unsupported TTS provider")

(***************************************************************************)
(* Characters                                                              *)
(***************************************************************************)
\* The printable ASCII characters from code 32 to code 95, and from code 97
\* to code 126, as they are written in this module.
AsciiLow ==
  <<
    " ", "!", "\"", "#", "$", "%", "&", "'", "(", ")", "*", "+", ",", "-", ".", "/",
    "0", "1", "2", "3", "4", "5", "6", "7", "8", "9", ":", ";", "<", "=", ">", "?",
    "@", "A", "B", "C", "D", "E", "F", "G", "H", "I", "J", "K", "L", "M", "N", "O",
    "P", "Q", "R", "S", "T", "U", "V", "W", "X", "Y", "Z", "[", "\\", "]", "^", "_"
  >>
AsciiHigh ==
  <<
    "a", "b", "c", "d", "e", "f", "g", "h", "i", "j", "k", "l", "m", "n", "o", "p",
    "q", "r", "s", "t", "u", "v", "w", "x", "y", "z", "{", "|", "}", "~"
  >>
\* The char that a one-character literal of this module denotes.
CharCode(ch) ==
    CASE ch = "\t" -> 9
      [] ch = "\n" -> 10
      [] ch = "\f" -> 12
      [] ch = "\r" -> 13
      [] \E i \in 1..Len(AsciiLow) : AsciiLow[i] = ch ->
            31 + (CHOOSE i \in 1..Len(AsciiLow) : AsciiLow[i] = ch)
      [] OTHER -> 96 + (CHOOSE i \in 1..Len(AsciiHigh) : AsciiHigh[i] = ch)
\* The string whose characters are written one by one in t.
Chars(t) == [i \in 1..Len(t) |-> CharCode(t[i])]

(***************************************************************************)
(* Base64 (BASE64_STANDARD: RFC 4648 alphabet, canonical padding required, *)
(* non-zero trailing bits rejected)                                        *)
(***************************************************************************)
Alphabet ==
  Chars(<<
    "A", "B", "C", "D", "E", "F", "G", "H", "I", "J", "K", "L", "M", "N", "O", "P",
    "Q", "R", "S", "T", "U", "V", "W", "X", "Y", "Z", "a", "b", "c", "d", "e", "f",
    "g", "h", "i", "j", "k", "l", "m", "n", "o", "p", "q", "r", "s", "t", "u", "v",
    "w", "x", "y", "z", "0", "1", "2", "3", "4", "5", "6", "7", "8", "9", "+", "/"
  >>)
PadChar == CharCode("=")

Sym(i) == Alphabet[i + 1]
IsSym(ch) == \E i \in 1..64 : Alphabet[i] = ch
SymValue(ch) == (CHOOSE i \in 1..64 : Alphabet[i] = ch) - 1

RECURSIVE Base64Encode(_)
Base64Encode(b) ==
    IF Len(b) = 0 THEN <<>>
    ELSE IF Len(b) = 1
    THEN <<Sym(b[1] \div 4), Sym((b[1] % 4) * 16), PadChar, PadChar>>
    ELSE IF Len(b) = 2
    THEN <<Sym(b[1] \div 4),
           Sym((b[1] % 4) * 16 + b[2] \div 16),
           Sym((b[2] % 16) * 4),
           PadChar>>
    ELSE <<Sym(b[1] \div 4),
           Sym((b[1] % 4) * 16 + b[2] \div 16),
           Sym((b[2] % 16) * 4 + b[3] \div 64),
           Sym(b[3] % 64)>>
         \o Base64Encode(SubSeq(b, 4, Len(b)))

NPad(s) ==
    IF Len(s) >= 2 /\ s[Len(s)] = PadChar /\ s[Len(s) - 1] = PadChar THEN 2
    ELSE IF Len(s) >= 1 /\ s[Len(s)] = PadChar THEN 1
    ELSE 0

\* The symbols of s, its padding removed.
Symbols(s) == SubSeq(s, 1, Len(s) - NPad(s))

RECURSIVE DecodeSymbols(_)
DecodeSymbols(q) ==
    IF Len(q) < 2 THEN <<>>
    ELSE LET a == SymValue(q[1])
             b == SymValue(q[2])
         IN  IF Len(q) = 2 THEN <<a * 4 + b \div 16>>
             ELSE LET c == SymValue(q[3])
                  IN  IF Len(q) = 3
                      THEN <<a * 4 + b \div 16, (b % 16) * 16 + c \div 4>>
                      ELSE <<a * 4 + b \div 16,
                             (b % 16) * 16 + c \div 4,
                             (c % 4) * 64 + SymValue(q[4])>>
                           \o DecodeSymbols(SubSeq(q, 5, Len(q)))

Base64Valid(s) ==
    LET q == Symbols(s)
    IN  /\ Len(s) % 4 = 0
        /\ \A i \in 1..Len(q) : IsSym(q[i])
        /\ NPad(s) = 1 => SymValue(q[Len(q)]) % 4 = 0
        /\ NPad(s) = 2 => SymValue(q[Len(q)]) % 16 = 0

Base64Decode(s) ==
    IF Base64Valid(s) THEN Ok(DecodeSymbols(Symbols(s))) ELSE Err("DecodeError")

(***************************************************************************)
(* Speech::base64_decode(audio, provider)                                  *)
(***************************************************************************)
DeepInfraPrefix ==
    Chars(<<"d", "a", "t", "a", ":", "a", "u", "d", "i", "o", "/", "m", "p", "3",
            ";", "b", "a", "s", "e", "6", "4", ",">>)

HasPrefix(s, p) == Len(s) >= Len(p) /\ SubSeq(s, 1, Len(p)) = p
\* str::strip_prefix
StripPrefix(s, p) ==
    IF HasPrefix(s, p) THEN Some(SubSeq(s, Len(p) + 1, Len(s))) ELSE None

DecodeStripped(stripped) ==
    LET bytes == Base64Decode(stripped)
    IN  IF IsOk(bytes) THEN Ok(bytes.ok) ELSE Panic("no decode")

base64_decode_always_strips(audio, provider) ==
    LET s == StripPrefix(audio, DeepInfraPrefix)
    IN  IF IsSome(s) THEN DecodeStripped(Unwrap(s)) ELSE Panic("no mp3 prefix")

base64_decode(audio, provider) ==
    IF provider = "DeepInfra"
    THEN LET s == StripPrefix(audio, DeepInfraPrefix)
         IN  IF IsSome(s) THEN DecodeStripped(Unwrap(s)) ELSE Panic("no mp3 prefix")
    ELSE DecodeStripped(audio)

(***************************************************************************)
(* serde_json::Value                                                       *)
(***************************************************************************)
Null == [null |-> TRUE]
Bool(b) == [bool |-> b]
Num(n) == [num |-> n]
Str(s) == [str |-> s]
Arr(a) == [arr |-> a]
Obj(o) == [obj |-> o]
EmptyObj == Obj(<<>>)

IsObj(v) == "obj" \in DOMAIN v
HasKey(v, k) == IsObj(v) /\ k \in DOMAIN v.obj
\* Value::get(key): Some only for a key of an object.
Get(v, k) == IF HasKey(v, k) THEN Some(v.obj[k]) ELSE None
\* value[key] read: Null for a missing key or a non-object.
Index(v, k) == IF HasKey(v, k) THEN v.obj[k] ELSE Null
as_str(v) == IF "str" \in DOMAIN v THEN Some(v.str) ELSE None
as_array(v) == IF "arr" \in DOMAIN v THEN Some(v.arr) ELSE None
\* value[key] = x write on an object: insert or replace.
Put(v, k, x) ==
    Obj([j \in DOMAIN v.obj \cup {k} |-> IF j = k THEN x ELSE v.obj[j]])

\* The characters of the field names the code reads from a response.
KeyText(k) ==
    CASE k = "audio" -> Chars(<<"a", "u", "d", "i", "o">>)
      [] k = "audioContent" ->
            Chars(<<"a", "u", "d", "i", "o", "C", "o", "n", "t", "e", "n", "t">>)
      [] k = "detail" -> Chars(<<"d", "e", "t", "a", "i", "l">>)
      [] k = "error" -> Chars(<<"e", "r", "r", "o", "r">>)
      [] k = "output_format" ->
            Chars(<<"o", "u", "t", "p", "u", "t", "_", "f", "o", "r", "m", "a", "t">>)
      [] k = "request_id" ->
            Chars(<<"r", "e", "q", "u", "e", "s", "t", "_", "i", "d">>)
      [] k = "timepoints" ->
            Chars(<<"t", "i", "m", "e", "p", "o", "i", "n", "t", "s">>)

\* The order of the keys of a serde_json object (a BTreeMap<String, Value>):
\* a is before b in the order of String, which is the order of the UTF-8
\* bytes and so of the code points, character by character.
KeyBefore(a, b) ==
    \E i \in 1..(Len(a) + 1) :
        /\ i <= Len(b)
        /\ \A j \in 1..(i - 1) : a[j] = b[j]
        /\ i > Len(a) \/ a[i] < b[i]

RECURSIVE SortedKeys(_)
SortedKeys(S) ==
    IF S = {} THEN <<>>
    ELSE LET first == CHOOSE k \in S : \A j \in S \ {k} : KeyBefore(k, j)
         IN  <<first>> \o SortedKeys(S \ {first})

Quote == CharCode("\"")
Backslash == CharCode("\\")
HexChars ==
    Chars(<<"0", "1", "2", "3", "4", "5", "6", "7", "8", "9",
            "a", "b", "c", "d", "e", "f">>)
\* The first character that a JSON string holds unescaped: the space.
FirstPlain == CharCode(" ")

\* The JSON escape of one character of a string: the quote, the backslash
\* and every control character below the space are escaped, the control
\* characters without a short escape as \u00XX in lower-case hexadecimal.
EscapeChar(ch) ==
    CASE ch = Quote -> <<Backslash, Quote>>
      [] ch = Backslash -> <<Backslash, Backslash>>
      [] ch = 8 -> <<Backslash, CharCode("b")>>
      [] ch = 9 -> <<Backslash, CharCode("t")>>
      [] ch = 10 -> <<Backslash, CharCode("n")>>
      [] ch = 12 -> <<Backslash, CharCode("f")>>
      [] ch = 13 -> <<Backslash, CharCode("r")>>
      [] ch < FirstPlain /\ ch \notin {8, 9, 10, 12, 13} ->
            <<Backslash, CharCode("u"), CharCode("0"), CharCode("0"),
              HexChars[(ch \div 16) + 1], HexChars[(ch % 16) + 1]>>
      [] OTHER -> <<ch>>

RECURSIVE Escaped(_)
Escaped(s) ==
    IF Len(s) = 0 THEN <<>> ELSE EscapeChar(Head(s)) \o Escaped(Tail(s))

\* A string as JSON prints it: quoted and escaped.
Quoted(s) == <<Quote>> \o Escaped(s) \o <<Quote>>

DigitChars == Chars(<<"0", "1", "2", "3", "4", "5", "6", "7", "8", "9">>)
RECURSIVE Digits(_)
Digits(n) ==
    IF n < 0 THEN <<CharCode("-")>> \o Digits(0 - n)
    ELSE IF n < 10 THEN <<DigitChars[n + 1]>>
    ELSE Digits(n \div 10) \o <<DigitChars[(n % 10) + 1]>>

NullText == Chars(<<"n", "u", "l", "l">>)
TrueText == Chars(<<"t", "r", "u", "e">>)
FalseText == Chars(<<"f", "a", "l", "s", "e">>)

\* impl Display for Value: the compact JSON text.
RECURSIVE Display(_), DisplayItems(_, _), DisplayFields(_, _, _)
Display(v) ==
    IF "null" \in DOMAIN v THEN NullText
    ELSE IF "bool" \in DOMAIN v THEN (IF v.bool THEN TrueText ELSE FalseText)
    ELSE IF "num" \in DOMAIN v THEN Digits(v.num)
    ELSE IF "str" \in DOMAIN v THEN Quoted(v.str)
    ELSE IF "arr" \in DOMAIN v
    THEN <<CharCode("[")>> \o DisplayItems(v.arr, 1) \o <<CharCode("]")>>
    ELSE <<CharCode("{")>>
         \o DisplayFields(v.obj, SortedKeys(DOMAIN v.obj), 1)
         \o <<CharCode("}")>>
DisplayItems(a, i) ==
    IF i > Len(a) THEN <<>>
    ELSE (IF i > 1 THEN <<CharCode(",")>> ELSE <<>>)
         \o Display(a[i]) \o DisplayItems(a, i + 1)
DisplayFields(o, keys, i) ==
    IF i > Len(keys) THEN <<>>
    ELSE (IF i > 1 THEN <<CharCode(",")>> ELSE <<>>)
         \o Quoted(keys[i]) \o <<CharCode(":")>> \o Display(o[keys[i]])
         \o DisplayFields(o, keys, i + 1)

(***************************************************************************)
(* SpeechResponse: bytes(), raw_value(), structured()                      *)
(***************************************************************************)
SpeechResponse(provider, resp) == [provider |-> provider, resp |-> resp]
Speech(request_id, file_format, audio) ==
    [request_id |-> request_id, file_format |-> file_format, audio |-> audio]

Mp3 == Chars(<<"m", "p", "3">>)
DeepInfraErrorPrefix ==
    Chars(<<"D", "e", "e", "p", "I", "n", "f", "r", "a", " ", "r", "e", "t", "u",
            "r", "n", "e", "d", " ", "a", "n", " ", "e", "r", "r", "o", "r", ":",
            " ">>)

bytes(r) == r.resp

\* serde_json::from_slice::<Value>
FromSlice(resp) ==
    IF "json" \in DOMAIN resp THEN Ok(resp.json) ELSE Err("serde_json::Error")

raw_value(r) == FromSlice(r.resp)

\* Speech { audio: Speech::base64_decode(audio, provider)?, .. }
WithDecoded(request_id, file_format, audio, provider) ==
    LET d == base64_decode(audio, provider)
    IN  IF IsOk(d) THEN Ok(Speech(request_id, file_format, d.ok)) ELSE d

structuredDeepInfra(r) ==
    LET rv == raw_value(r)
    IN  IF ~IsOk(rv) THEN rv
        ELSE LET resp == rv.ok
             IN  IF IsSome(Get(resp, KeyText("detail")))
                 THEN Err(DeepInfraErrorPrefix \o Display(Index(resp, KeyText("detail"))))
                 ELSE IF ~IsSome(as_str(Index(resp, KeyText("audio"))))
                 THEN Panic("no audio in resp")
                 ELSE IF ~IsSome(as_str(Index(resp, KeyText("request_id"))))
                 THEN Panic("unwrap request_id")
                 ELSE IF ~IsSome(as_str(Index(resp, KeyText("output_format"))))
                 THEN Panic("unwrap output_format")
                 ELSE WithDecoded(Some(Unwrap(as_str(Index(resp, KeyText("request_id"))))),
                                  Unwrap(as_str(Index(resp, KeyText("output_format")))),
                                  Unwrap(as_str(Index(resp, KeyText("audio")))),
                                  r.provider)

structuredHyperbolic(r) ==
    LET rv == raw_value(r)
    IN  IF ~IsOk(rv) THEN rv
        ELSE LET resp == rv.ok
             IN  IF ~IsSome(as_str(Index(resp, KeyText("audio"))))
                 THEN Panic("unwrap audio")
                 ELSE WithDecoded(None, Mp3, Unwrap(as_str(Index(resp, KeyText("audio")))),
                                  r.provider)

structuredOpenAI(r) ==
    LET audio == r.resp
        p == FromSlice(r.resp)
    IN  IF IsOk(p) /\ IsSome(Get(p.ok, KeyText("error")))
        THEN Err(Display(Index(p.ok, KeyText("error"))))
        ELSE Ok(Speech(None, Mp3, audio))

structuredGoogleErrorUnchecked(r) ==
    LET rv == raw_value(r)
    IN  IF ~IsOk(rv) THEN rv
        ELSE LET resp == rv.ok
             IN  IF ~IsSome(as_str(Index(resp, KeyText("audioContent"))))
                 THEN Panic("audioContent")
                 ELSE IF ~IsSome(as_array(Index(resp, KeyText("timepoints"))))
                 THEN Panic("unwrap timepoints")
                 ELSE WithDecoded(None, Mp3,
                                  Unwrap(as_str(Index(resp, KeyText("audioContent")))),
                                  r.provider)

structuredGoogle(r) ==
    LET rv == raw_value(r)
    IN  IF ~IsOk(rv) THEN rv
        ELSE LET resp == rv.ok
             IN  IF IsSome(Get(resp, KeyText("error")))
                 THEN Err(Display(Index(resp, KeyText("error"))))
                 ELSE IF ~IsSome(as_str(Index(resp, KeyText("audioContent"))))
                 THEN Panic("audioContent")
                 ELSE IF ~IsSome(as_array(Index(resp, KeyText("timepoints"))))
                 THEN Panic("unwrap timepoints")
                 ELSE WithDecoded(None, Mp3,
                                  Unwrap(as_str(Index(resp, KeyText("audioContent")))),
                                  r.provider)

structured(r) ==
    IF r.provider = "DeepInfra" THEN structuredDeepInfra(r)
    ELSE IF r.provider = "Hyperbolic" THEN structuredHyperbolic(r)
    ELSE IF r.provider = "OpenAI" THEN structuredOpenAI(r)
    ELSE IF r.provider = "Google" THEN structuredGoogle(r)
    ELSE Panic("Unsupported TTS provider")

(***************************************************************************)
(* Encoding and decoding of an audio payload                               *)
(*   raw    the bytes the provider encodes                                 *)
(*   text   the audio string of the payload, [prefixed, chars]             *)
(*   dprov  the provider the payload is decoded for                        *)
(*   dec    None, or Some(result of Speech::base64_decode)                 *)
(***************************************************************************)
ByteSample == {0, 1, 63, 64, 128, 255}

RECURSIVE SeqsUpTo(_, _)
SeqsUpTo(S, n) ==
    IF n = 0 THEN {<<>>}
    ELSE LET shorter == SeqsUpTo(S, n - 1)
         IN  shorter \cup {Append(q, x) : q \in {t \in shorter : Len(t) = n - 1}, x \in S}

ByteSeqs == SeqsUpTo(ByteSample, MaxLen)

DecodeIdle ==
    /\ raw = <<>>
    /\ text = [prefixed |-> FALSE, chars |-> <<>>]
    /\ dprov = "OpenAI"
    /\ dec = None
    /\ dstage = "unused"

InitDecode ==
    /\ raw \in ByteSeqs
    /\ text = [prefixed |-> FALSE, chars |-> <<>>]
    /\ dprov \in Providers
    /\ dec = None
    /\ dstage = "bytes"

\* The provider's side: the payload is the base64 text of the bytes, with or
\* without the MIME prefix.
EncodeAudio(prefixed) ==
    /\ dstage = "bytes"
    /\ text' = [prefixed |-> prefixed,
                chars |-> (IF prefixed THEN DeepInfraPrefix ELSE <<>>)
                          \o Base64Encode(raw)]
    /\ dstage' = "encoded"
    /\ UNCHANGED <<raw, dprov, dec>>

DecodeAudio ==
    /\ dstage = "encoded"
    /\ dec' = Some(base64_decode(text.chars, dprov))
    /\ dstage' = "decoded"
    /\ UNCHANGED <<raw, text, dprov>>

(***************************************************************************)
(* A SpeechResponse and its accessors                                      *)
(*   sr   the response wrapper [provider, resp]                            *)
(*   op   the accessor called last                                         *)
(*   out  what it returned                                                 *)
(***************************************************************************)
FixtureBytes == <<255, 251>>
FixtureB64 == Base64Encode(FixtureBytes)
NotB64 == Chars(<<"!", "!", "!", "!">>)
Bad == Chars(<<"b", "a", "d">>)
\* The backspace, a control character without a short escape, the last
\* control character, the delete character and a character outside ASCII.
ControlChars == <<8, 1, 31, 127, 233>>
\* A message with a quote, a backslash, a line break and the characters above.
NeedsEscape == Chars(<<"a", "\"", "b", "\\", "c", "\n">>) \o ControlChars
\* The error object of a provider: {"message": .., "code": 400, "param": null},
\* with one more key that differs from "code" at a control character.
ErrorObject ==
    Obj((Chars(<<"m", "e", "s", "s", "a", "g", "e">>) :> Str(NeedsEscape))
        @@ (Chars(<<"c", "o", "d", "e">>) :> Num(400))
        @@ (Chars(<<"p", "a", "r", "a", "m">>) :> Null)
        @@ (Chars(<<"c", "o", "d">>) \o <<1>> :> Bool(TRUE)))

DetailChoices == {None, Some(Str(Bad)), Some(Str(NeedsEscape)), Some(Null)}
ErrorChoices == {None, Some(Str(Bad)), Some(Num(0 - 1)), Some(ErrorObject)}
AudioChoices ==
    {None, Some(Str(DeepInfraPrefix \o FixtureB64)), Some(Str(FixtureB64)),
     Some(Str(NotB64)), Some(Num(7))}
AudioContentChoices == {None, Some(Str(FixtureB64)), Some(Str(NotB64))}
TimepointsChoices == {None, Some(Arr(<<>>)), Some(Null)}
RequestIdChoices == {None, Some(Str(Chars(<<"r", "1">>))), Some(Null)}
OutputFormatChoices == {None, Some(Str(Mp3)), Some(Str(Chars(<<"w", "a", "v">>)))}

\* The object holding the fields that are chosen Some.
ObjectOf(choice) ==
    LET chosen == {j \in DOMAIN choice : IsSome(choice[j])}
    IN  Obj([k \in {KeyText(j) : j \in chosen} |->
               Unwrap(choice[CHOOSE j \in chosen : KeyText(j) = k])])

ResponseObjects ==
    {ObjectOf(c) : c \in [detail : DetailChoices, error : ErrorChoices,
                          audio : AudioChoices, audioContent : AudioContentChoices,
                          timepoints : TimepointsChoices,
                          request_id : RequestIdChoices,
                          output_format : OutputFormatChoices]}

ResponseBodies ==
    {[json |-> v] : v \in ResponseObjects \cup {Arr(<<>>), Str(Bad)}}
        \cup {[raw |-> FixtureBytes], [raw |-> <<>>]}

ParseIdle ==
    /\ sr = SpeechResponse("OpenAI", [raw |-> <<>>])
    /\ out = None
    /\ op = "unused"

InitParse ==
    /\ sr \in {SpeechResponse(p, b) : p \in Providers, b \in ResponseBodies}
    /\ out = None
    /\ op = "new"

CallBytes ==
    /\ op # "unused"
    /\ op' = "bytes"
    /\ out' = Some(bytes(sr))
    /\ UNCHANGED sr

CallRawValue ==
    /\ op # "unused"
    /\ op' = "raw_value"
    /\ out' = Some(raw_value(sr))
    /\ UNCHANGED sr

CallStructured ==
    /\ op # "unused"
    /\ op' = "structured"
    /\ out' = Some(structured(sr))
    /\ UNCHANGED sr

(***************************************************************************)
(* tts(key, config, model, text): the request                              *)
(***************************************************************************)
\* Keys whose text HeaderValue::from_str rejects (a control character).
InvalidHeaderKeys == {"sk-bad\n"}

\* crate::request_headers(key): the bearer credential and the content type.
request_headers(key) ==
    IF key.key \in InvalidHeaderKeys THEN Err("InvalidHeaderValue")
    ELSE Ok(("Authorization" :> <<"Bearer ", key.key>>)
            @@ ("Content-Type" :> <<"application/json">>))

\* HeaderMap::remove
Remove(h, name) == [n \in DOMAIN h \ {name} |-> h[n]]

WithInput(b, key, txt) ==
    IF key.provider = "OpenAI" THEN Put(b, "input", Str(txt))
    ELSE IF key.provider = "Google" THEN Put(b, "input", Obj([text |-> Str(txt)]))
    ELSE Put(b, "text", Str(txt))

WithModel(b, model) ==
    IF IsSome(model) THEN Put(b, "model", Str(Unwrap(model))) ELSE b

GoogleAudioConfig ==
    Obj([audioEncoding |-> Str("LINEAR16"), pitch |-> Num(0), speakingRate |-> Num(1)])

WithVoice(b, key, config) ==
    IF ~IsSome(config.voice) THEN Ok(b)
    ELSE LET voice == Unwrap(config.voice)
         IN  IF key.provider = "OpenAI" THEN Ok(Put(b, "voice", Str(voice)))
             ELSE IF key.provider = "Google"
             THEN LET v == Obj([name |-> Str(voice)])
                      w == IF IsSome(config.language_code)
                           THEN Put(v, "languageCode", Str(Unwrap(config.language_code)))
                           ELSE v
                  IN  Ok(Put(Put(b, "voice", w), "audioConfig", GoogleAudioConfig))
             ELSE IF key.provider = "DeepInfra"
             THEN Ok(Put(b, "preset_voice", Str(voice)))
             ELSE Panic("Unsupported TTS provider")

WithSpeed(b, config) ==
    IF IsSome(config.speed) THEN Put(b, "speed", Num(Unwrap(config.speed))) ELSE b

WithOutputFormatDefaulted(b, config) ==
    Put(b, "output_format",
        Str(IF IsSome(config.output_format) THEN Unwrap(config.output_format) ELSE "mp3"))

WithOutputFormat(b, config) ==
    IF IsSome(config.output_format)
    THEN Put(b, "output_format", Str(Unwrap(config.output_format)))
    ELSE b

WithOtherKeepingTyped(b, config) ==
    IF IsSome(config.other)
    THEN LET o == Unwrap(config.other)
         IN  Obj([k \in DOMAIN b.obj \cup DOMAIN o |->
                    IF k \in DOMAIN b.obj THEN b.obj[k] ELSE o[k]])
    ELSE b

\* for (key, value) in other { body[key] = value.clone(); }
WithOther(b, config) ==
    IF IsSome(config.other)
    THEN LET o == Unwrap(config.other)
         IN  Obj([k \in DOMAIN b.obj \cup DOMAIN o |->
                    IF k \in DOMAIN o THEN o[k] ELSE b.obj[k]])
    ELSE b

\* The body of the request: Ok(body), or the abort of the voice branch.
BuildBody(key, config, model, txt) ==
    LET v == WithVoice(WithModel(WithInput(EmptyObj, key, txt), model), key, config)
    IN  IF IsPanic(v) THEN v
        ELSE Ok(WithOther(WithOutputFormat(WithSpeed(v.ok, config), config), config))

TtsHeadersKeepingAuthorization(key) == request_headers(key)

\* The headers of the request: request_headers(key)?, Authorization removed
\* for Google.
TtsHeaders(key) ==
    LET h == request_headers(key)
    IN  IF ~IsOk(h) THEN h
        ELSE IF key.provider = "Google" THEN Ok(Remove(h.ok, "Authorization"))
        ELSE h

Request(u, h, b) == [url |-> u, headers |-> h, body |-> b]

NewResponseOpenAITagged(key, resp) == SpeechResponse("OpenAI", resp)

\* SpeechResponse { provider: key.provider.clone(), resp }
NewResponse(key, resp) == SpeechResponse(key.provider, resp)

\* What the transport makes of the one request: it fails, or a response
\* arrives whose body can or cannot be read to its end.
TransportError == [transport_error |-> TRUE]
HttpReply(b, readable) == [body |-> b, readable |-> readable]
IsTransportError(reply) == "transport_error" \in DOMAIN reply

\* tts() as one function of its arguments and of the transport's answer.
ttsOutcome(a, reply) ==
    LET ad == address(a.key, a.model)
        b == BuildBody(a.key, a.config, a.model, a.text)
        h == TtsHeaders(a.key)
    IN  IF IsPanic(ad) THEN ad
        ELSE IF IsPanic(b) THEN b
        ELSE IF ~IsOk(h) THEN h
        ELSE IF IsTransportError(reply) \/ ~reply.readable THEN Err("reqwest::Error")
        ELSE Ok(NewResponse(a.key, reply.body))

(***************************************************************************)
(* Calls of tts().  Per call c:                                            *)
(*   pc[c]       "address", "body", "headers", "send": the statement the   *)
(*               call is about to run; "await_send", "await_bytes": the    *)
(*               await it is suspended at; "returned"; "panicked"          *)
(*   args[c]     [key, config, model, text]                                *)
(*   url[c], body[c], headers[c]   the locals, None until assigned         *)
(*   posts[c]    the number of POST requests the call has issued           *)
(*   net[c]      [req, reply]: the request on the wire and the transport's *)
(*               answer to it, None until there is one                     *)
(*   ret[c]      None, or Some(Ok(SpeechResponse)), Some(Err(e)), or the   *)
(*               Some(Panic(m)) that aborted the call                      *)
(*   parsed[c]   None, or Some(what structured() returned to the caller)   *)
(***************************************************************************)
Calls == {1, 2}
Texts == <<"Hello, world!", "Goodbye">>

KeyTexts == {"sk-live"} \cup InvalidHeaderKeys
Keys == {[provider |-> p, key |-> k] : p \in Providers, k \in KeyTexts}

CollidingOther ==
    [voice |-> Str("override"), speed |-> Null, input |-> Str("other input"),
     model |-> Str("other-model"), foo |-> Str("bar")]
OtherChoices == {None, Some(<<>>), Some([foo |-> Str("bar")]), Some(CollidingOther)}

Configs ==
    [output_format : {None, Some("wav")},
     voice : {None, Some("alloy")},
     speed : {None, Some(2)},
     language_code : {None, Some("en-US")},
     other : OtherChoices]

Models == {None, Some("tts-1")}

CallArgs(c) == [key : Keys, config : Configs, model : Models, text : {Texts[c]}]

\* The arguments two concurrent calls are made with.
PlainConfigs ==
    {cf \in Configs : /\ cf.output_format = None
                      /\ cf.speed = None
                      /\ cf.language_code = None
                      /\ cf.other \in {None, Some([foo |-> Str("bar")])}}
PairArgs(c) == {a \in CallArgs(c) : a.config \in PlainConfigs}

NoArgs ==
    [key |-> [provider |-> "OpenAI", key |-> "sk-live"],
     config |-> [output_format |-> None, voice |-> None, speed |-> None,
                 language_code |-> None, other |-> None],
     model |-> None, text |-> ""]

WireBodies ==
    {[raw |-> FixtureBytes],
     [json |-> Obj(KeyText("detail") :> Str(Bad))],
     [json |-> Obj(KeyText("audio") :> Str(FixtureB64))],
     [json |-> Obj((KeyText("audioContent") :> Str(FixtureB64))
                   @@ (KeyText("timepoints") :> Arr(<<>>)))]}
Replies ==
    {TransportError} \cup {HttpReply(b, TRUE) : b \in WireBodies}
        \cup {HttpReply([raw |-> FixtureBytes], FALSE)}

CallsIdle ==
    /\ pc = [c \in Calls |-> "unused"]
    /\ args = [c \in Calls |-> NoArgs]
    /\ url = [c \in Calls |-> None]
    /\ body = [c \in Calls |-> None]
    /\ headers = [c \in Calls |-> None]
    /\ posts = [c \in Calls |-> 0]
    /\ net = [c \in Calls |-> [req |-> None, reply |-> None]]
    /\ ret = [c \in Calls |-> None]
    /\ parsed = [c \in Calls |-> None]

InitCalls(started, argsOf) ==
    /\ pc = [c \in Calls |-> IF c \in started THEN "address" ELSE "unused"]
    /\ args = [c \in Calls |-> IF c \in started THEN argsOf[c] ELSE NoArgs]
    /\ url = [c \in Calls |-> None]
    /\ body = [c \in Calls |-> None]
    /\ headers = [c \in Calls |-> None]
    /\ posts = [c \in Calls |-> 0]
    /\ net = [c \in Calls |-> [req |-> None, reply |-> None]]
    /\ ret = [c \in Calls |-> None]
    /\ parsed = [c \in Calls |-> None]

\* let address = address(key, model);
Address(c) ==
    /\ pc[c] = "address"
    /\ LET r == address(args[c].key, args[c].model)
       IN  IF IsPanic(r)
           THEN /\ pc' = [pc EXCEPT ![c] = "panicked"]
                /\ ret' = [ret EXCEPT ![c] = Some(r)]
                /\ UNCHANGED url
           ELSE /\ pc' = [pc EXCEPT ![c] = "body"]
                /\ url' = [url EXCEPT ![c] = Some(r.ok)]
                /\ UNCHANGED ret
    /\ UNCHANGED <<args, body, headers, posts, net, parsed>>
    /\ UNCHANGED <<parseVars, decodeVars>>

BodySharedAcrossCalls(c) ==
    /\ pc[c] = "body"
    /\ LET r == BuildBody(args[c].key, args[c].config, args[c].model, args[c].text)
       IN  IF IsPanic(r)
           THEN /\ pc' = [pc EXCEPT ![c] = "panicked"]
                /\ ret' = [ret EXCEPT ![c] = Some(r)]
                /\ UNCHANGED body
           ELSE /\ pc' = [pc EXCEPT ![c] = "headers"]
                /\ body' = [d \in Calls |-> Some(r.ok)]
                /\ UNCHANGED ret
    /\ UNCHANGED <<args, url, headers, posts, net, parsed>>
    /\ UNCHANGED <<parseVars, decodeVars>>

\* let mut body = json!({}); ... the last write to body
Body(c) ==
    /\ pc[c] = "body"
    /\ LET r == BuildBody(args[c].key, args[c].config, args[c].model, args[c].text)
       IN  IF IsPanic(r)
           THEN /\ pc' = [pc EXCEPT ![c] = "panicked"]
                /\ ret' = [ret EXCEPT ![c] = Some(r)]
                /\ UNCHANGED body
           ELSE /\ pc' = [pc EXCEPT ![c] = "headers"]
                /\ body' = [body EXCEPT ![c] = Some(r.ok)]
                /\ UNCHANGED ret
    /\ UNCHANGED <<args, url, headers, posts, net, parsed>>
    /\ UNCHANGED <<parseVars, decodeVars>>

\* let headers = ...; an Err of request_headers returns from tts()
Headers(c) ==
    /\ pc[c] = "headers"
    /\ LET r == TtsHeaders(args[c].key)
       IN  IF IsOk(r)
           THEN /\ pc' = [pc EXCEPT ![c] = "send"]
                /\ headers' = [headers EXCEPT ![c] = Some(r.ok)]
                /\ UNCHANGED ret
           ELSE /\ pc' = [pc EXCEPT ![c] = "returned"]
                /\ ret' = [ret EXCEPT ![c] = Some(r)]
                /\ UNCHANGED headers
    /\ UNCHANGED <<args, url, body, posts, net, parsed>>
    /\ UNCHANGED <<parseVars, decodeVars>>

\* client.post(address).headers(headers).json(&body).send()
Send(c) ==
    /\ pc[c] = "send"
    /\ pc' = [pc EXCEPT ![c] = "await_send"]
    /\ posts' = [posts EXCEPT ![c] = @ + 1]
    /\ net' = [net EXCEPT ![c].req =
                  Some(Request(Unwrap(url[c]), Unwrap(headers[c]), Unwrap(body[c])))]
    /\ UNCHANGED <<args, url, body, headers, ret, parsed>>
    /\ UNCHANGED <<parseVars, decodeVars>>

\* The transport answers the request on the wire.
Transport(c, reply) ==
    /\ IsSome(net[c].req)
    /\ net[c].reply = None
    /\ net' = [net EXCEPT ![c].reply = Some(reply)]
    /\ UNCHANGED <<pc, args, url, body, headers, posts, ret, parsed>>
    /\ UNCHANGED <<parseVars, decodeVars>>

AwaitSendRetrying(c) ==
    /\ pc[c] = "await_send"
    /\ IsSome(net[c].reply)
    /\ IF IsTransportError(Unwrap(net[c].reply))
       THEN /\ pc' = [pc EXCEPT ![c] = "send"]
            /\ net' = [net EXCEPT ![c].reply = None]
            /\ UNCHANGED ret
       ELSE /\ pc' = [pc EXCEPT ![c] = "await_bytes"]
            /\ UNCHANGED <<ret, net>>
    /\ UNCHANGED <<args, url, body, headers, posts, parsed>>
    /\ UNCHANGED <<parseVars, decodeVars>>

\* .send().await?
AwaitSend(c) ==
    /\ pc[c] = "await_send"
    /\ IsSome(net[c].reply)
    /\ IF IsTransportError(Unwrap(net[c].reply))
       THEN /\ pc' = [pc EXCEPT ![c] = "returned"]
            /\ ret' = [ret EXCEPT ![c] = Some(Err("reqwest::Error"))]
       ELSE /\ pc' = [pc EXCEPT ![c] = "await_bytes"]
            /\ UNCHANGED ret
    /\ UNCHANGED <<args, url, body, headers, posts, net, parsed>>
    /\ UNCHANGED <<parseVars, decodeVars>>

\* SpeechResponse { provider: key.provider.clone(), resp: resp.bytes().await? }
AwaitBytes(c) ==
    /\ pc[c] = "await_bytes"
    /\ pc' = [pc EXCEPT ![c] = "returned"]
    /\ LET reply == Unwrap(net[c].reply)
       IN  ret' = [ret EXCEPT ![c] =
                      Some(IF reply.readable
                           THEN Ok(NewResponse(args[c].key, reply.body))
                           ELSE Err("reqwest::Error"))]
    /\ UNCHANGED <<args, url, body, headers, posts, net, parsed>>
    /\ UNCHANGED <<parseVars, decodeVars>>

\* The caller parses the response it was returned.
Structured(c) ==
    /\ pc[c] = "returned"
    /\ IsSome(ret[c])
    /\ IsOk(Unwrap(ret[c]))
    /\ parsed' = [parsed EXCEPT ![c] = Some(structured(Unwrap(ret[c]).ok))]
    /\ UNCHANGED <<pc, args, url, body, headers, posts, net, ret>>
    /\ UNCHANGED <<parseVars, decodeVars>>

CallStep(c) ==
    \/ Address(c)
    \/ Body(c)
    \/ Headers(c)
    \/ Send(c)
    \/ \E reply \in Replies : Transport(c, reply)
    \/ AwaitSend(c)
    \/ AwaitBytes(c)
    \/ Structured(c)

(***************************************************************************)
(* Specifications                                                          *)
(***************************************************************************)
\* One call of tts() with any arguments, and the caller's structured().
Init ==
    /\ \E a \in CallArgs(1) : InitCalls({1}, [c \in Calls |-> a])
    /\ ParseIdle
    /\ DecodeIdle

Next == \E c \in Calls : CallStep(c)

Spec == Init /\ [][Next]_vars

\* Two calls of tts() with different providers, their steps interleaved.
InitPair ==
    /\ \E a \in PairArgs(1), b \in PairArgs(2) :
          /\ a.key.provider # b.key.provider
          /\ InitCalls(Calls, <<a, b>>)
    /\ ParseIdle
    /\ DecodeIdle

SpecPair == InitPair /\ [][Next]_vars

\* The accessors of one SpeechResponse holding any response body.
InitResponse ==
    /\ InitParse
    /\ CallsIdle
    /\ DecodeIdle

NextResponse ==
    \/ CallBytes /\ UNCHANGED <<callVars, decodeVars>>
    \/ CallRawValue /\ UNCHANGED <<callVars, decodeVars>>
    \/ CallStructured /\ UNCHANGED <<callVars, decodeVars>>

SpecResponse == InitResponse /\ [][NextResponse]_vars

\* A provider encodes bytes and Speech::base64_decode decodes them.
InitRoundTrip ==
    /\ InitDecode
    /\ CallsIdle
    /\ ParseIdle

NextRoundTrip ==
    \/ \E prefixed \in BOOLEAN : EncodeAudio(prefixed) /\ UNCHANGED <<callVars, parseVars>>
    \/ DecodeAudio /\ UNCHANGED <<callVars, parseVars>>

SpecRoundTrip == InitRoundTrip /\ [][NextRoundTrip]_vars

(***************************************************************************)
(* Properties                                                              *)
(***************************************************************************)
\* p occurs in s as a contiguous run of characters.
Infix(p, s) ==
    \E i \in 0..(Len(s) - Len(p)) : SubSeq(s, i + 1, i + Len(p)) = p

Started(c) == pc[c] # "unused"
ReturnedOk(c) == IsSome(ret[c]) /\ IsOk(Unwrap(ret[c]))

\* The key that carries a provider's error payload.
ErrorKey(provider) ==
    IF provider = "DeepInfra" THEN KeyText("detail") ELSE KeyText("error")
IsErrorPayload(r) ==
    /\ r.provider \in {"DeepInfra", "OpenAI", "Google"}
    /\ "json" \in DOMAIN r.resp
    /\ HasKey(r.resp.json, ErrorKey(r.provider))

\* C1: structured() on a DeepInfra body with a top-level detail key, or an
\* OpenAI or Google body with a top-level error key, returns an Err whose text
\* contains the printed value of that key, and does not panic, whatever the
\* other fields of the body are.
C1_ErrorPayloadIsErr ==
    (op = "structured" /\ IsErrorPayload(sr)) =>
        /\ IsErr(Unwrap(out))
        /\ Infix(Display(sr.resp.json.obj[ErrorKey(sr.provider)]), Unwrap(out).err)

C1_Witness ==
    /\ op = "structured"
    /\ sr.provider = "Google"
    /\ IsErrorPayload(sr)
    /\ ~HasKey(sr.resp.json, KeyText("audioContent"))
    /\ Index(sr.resp.json, KeyText("error")) = ErrorObject
    /\ IsErr(Unwrap(out))

\* What address() left in call c, against the endpoint documented for its provider.
C2_AddressOf(c) ==
    LET p == args[c].key.provider
        m == args[c].model
    IN  CASE p = "DeepInfra" ->
               url[c] = Some(<<domain(p), "/v1/inference/",
                               IF m = None THEN "hexgrad/Kokoro-82M" ELSE Unwrap(m)>>)
          [] p = "Hyperbolic" -> url[c] = Some(<<domain(p), "/v1/audio/generation">>)
          [] p = "OpenAI" -> url[c] = Some(<<domain(p), "/v1/audio/speech">>)
          [] p = "Google" ->
               /\ IsSome(url[c])
               /\ SubSeq(Unwrap(url[c]), 1, 2) =
                     <<"https://texttospeech.googleapis.com", "/v1beta1/text:synthesize">>
               /\ Unwrap(url[c]) = <<GoogleDomain, GooglePath, "?key=", args[c].key.key>>
          [] OTHER ->
               /\ url[c] = None
               /\ pc[c] = "panicked"
               /\ IsPanic(Unwrap(ret[c]))

\* C2: address() returns {domain}/v1/inference/{model} for DeepInfra, the model
\* defaulting to hexgrad/Kokoro-82M; {domain}/v1/audio/generation for Hyperbolic
\* and {domain}/v1/audio/speech for OpenAI whatever the model; the fixed
\* texttospeech endpoint (followed by the key query) for Google whatever the
\* model; and panics, returning no URL, for any other provider.
C2_AddressDocumented ==
    \A c \in Calls : (Started(c) /\ pc[c] # "address") => C2_AddressOf(c)

C2_Witness ==
    /\ pc[1] = "body"
    /\ args[1].key.provider = "DeepInfra"
    /\ args[1].model = Some("tts-1")
    /\ url[1] = Some(<<domain("DeepInfra"), "/v1/inference/", "tts-1">>)

\* The success payload of each provider.
IsB64Str(v) == IsSome(as_str(v)) /\ Base64Valid(Unwrap(as_str(v)))
IsPrefixedB64Str(v) ==
    /\ IsSome(as_str(v))
    /\ HasPrefix(Unwrap(as_str(v)), DeepInfraPrefix)
    /\ Base64Valid(Unwrap(StripPrefix(Unwrap(as_str(v)), DeepInfraPrefix)))
DecodedOf(chars) == Base64Decode(chars).ok

Field(v, name) == v.obj[KeyText(name)]

C3_Expected(r) ==
    LET v == r.resp.json
    IN  CASE r.provider = "Hyperbolic" ->
               Ok(Speech(None, Mp3, DecodedOf(Field(v, "audio").str)))
          [] r.provider = "Google" ->
               Ok(Speech(None, Mp3, DecodedOf(Field(v, "audioContent").str)))
          [] r.provider = "DeepInfra" ->
               Ok(Speech(Some(Field(v, "request_id").str), Field(v, "output_format").str,
                         DecodedOf(Unwrap(StripPrefix(Field(v, "audio").str,
                                                      DeepInfraPrefix)))))

C3_IsSuccessPayload(r) ==
    /\ "json" \in DOMAIN r.resp
    /\ IsObj(r.resp.json)
    /\ CASE r.provider = "Hyperbolic" -> IsB64Str(Index(r.resp.json, KeyText("audio")))
         [] r.provider = "Google" ->
              /\ ~HasKey(r.resp.json, KeyText("error"))
              /\ IsB64Str(Index(r.resp.json, KeyText("audioContent")))
         [] r.provider = "DeepInfra" ->
              /\ ~HasKey(r.resp.json, KeyText("detail"))
              /\ IsPrefixedB64Str(Index(r.resp.json, KeyText("audio")))
              /\ IsSome(as_str(Index(r.resp.json, KeyText("request_id"))))
              /\ IsSome(as_str(Index(r.resp.json, KeyText("output_format"))))
         [] OTHER -> FALSE

\* C3: structured() on a provider's success payload returns Ok(Speech) with the
\* documented fields: Hyperbolic {audio} and Google {audioContent} give "mp3",
\* no request id and the decoded bytes, timepoints having no effect; OpenAI
\* gives "mp3", no request id and the whole body; DeepInfra gives the
\* response's request_id and output_format and the bytes decoded after the
\* MIME prefix.
C3_SuccessPayloadFields ==
    op = "structured" =>
        /\ C3_IsSuccessPayload(sr) => Unwrap(out) = C3_Expected(sr)
        /\ (sr.provider = "OpenAI" /\ ~IsErrorPayload(sr)) =>
              Unwrap(out) = Ok(Speech(None, Mp3, sr.resp))

\* C4: Speech::base64_decode returns the encoded bytes: for DeepInfra from the
\* MIME prefix followed by the base64 text, for any other provider from the
\* base64 text, of which nothing is stripped.
C4_RoundTrip ==
    (dstage = "decoded" /\ (text.prefixed <=> dprov = "DeepInfra")) =>
        dec = Some(Ok(raw))

C4_Witness ==
    /\ dstage = "decoded"
    /\ dprov = "DeepInfra"
    /\ text.prefixed
    /\ Len(raw) = 2
    /\ text.chars[Len(text.chars)] = PadChar
    /\ dec = Some(Ok(raw))

\* Body b holds every entry of config.other.
C5_BodyHasOther(b, config) ==
    IsSome(config.other) =>
        \A k \in DOMAIN Unwrap(config.other) :
            HasKey(b, k) /\ b.obj[k] = Unwrap(config.other)[k]

\* C5: every entry of config.other is in the body tts() builds, with the value
\* config.other gives it, also where a typed field wrote the same key before.
C5_OtherMergedLast ==
    \A c \in Calls :
        /\ IsSome(body[c]) => C5_BodyHasOther(Unwrap(body[c]), args[c].config)
        /\ IsSome(net[c].req) =>
              C5_BodyHasOther(Unwrap(net[c].req).body, args[c].config)

C5_Witness ==
    /\ IsSome(net[1].req)
    /\ args[1].key.provider = "OpenAI"
    /\ args[1].config.voice = Some("alloy")
    /\ args[1].config.speed = Some(2)
    /\ args[1].model = Some("tts-1")
    /\ args[1].config.other = Some(CollidingOther)
    /\ Unwrap(net[1].req).body.obj.voice = Str("override")
    /\ Unwrap(net[1].req).body.obj.foo = Str("bar")

\* Body b has the typed fields the arguments a set, and no other.
C6_BodyMirrorsConfig(b, a) ==
    /\ HasKey(b, "speed") <=> IsSome(a.config.speed)
    /\ HasKey(b, "output_format") <=> IsSome(a.config.output_format)
    /\ HasKey(b, "model") <=> IsSome(a.model)
    /\ a.config.voice = None =>
          DOMAIN b.obj \cap {"voice", "preset_voice", "audioConfig"} = {}
    /\ (/\ a.config.voice = None
        /\ a.config.output_format = None
        /\ a.config.language_code = None
        /\ a.model = None
        /\ IsSome(a.config.speed)) =>
          DOMAIN b.obj \in {{"input", "speed"}, {"text", "speed"}}

\* C6: with config.other unset the body has speed iff config.speed is set,
\* output_format iff config.output_format is set, model iff the model argument
\* is Some, and none of voice, preset_voice, audioConfig when config.voice is
\* None; so a config with only speed set gives the input field and speed alone.
C6_AbsentFieldsOmitted ==
    \A c \in Calls :
        (IsSome(body[c]) /\ args[c].config.other = None) =>
            C6_BodyMirrorsConfig(Unwrap(body[c]), args[c])

C6_Witness ==
    /\ IsSome(body[1])
    /\ args[1].key.provider = "Google"
    /\ args[1].model = None
    /\ args[1].config =
          [output_format |-> None, voice |-> None, speed |-> Some(2),
           language_code |-> None, other |-> None]
    /\ DOMAIN Unwrap(body[1]).obj = {"input", "speed"}

\* The response call c returned carries the provider of its key.
C7_TagOfCall(c) ==
    ReturnedOk(c) =>
        /\ Unwrap(ret[c]).ok.provider = args[c].key.provider
        /\ IsSome(parsed[c]) =>
              Unwrap(parsed[c]) =
                  structured(SpeechResponse(args[c].key.provider,
                                            Unwrap(net[c].reply).body))

\* C7: a SpeechResponse returned by tts(key, ..) is tagged key.provider, the
\* returned value never changes afterwards, and structured() gives what the
\* branch of that provider gives on the body received.
C7_ProviderTagMatches ==
    /\ [](\A c \in Calls : C7_TagOfCall(c))
    /\ [][\A c \in Calls : IsSome(ret[c]) => ret'[c] = ret[c]]_vars

C7_Witness ==
    /\ ReturnedOk(1)
    /\ args[1].key.provider = "DeepInfra"
    /\ Unwrap(ret[1]).ok.provider = "DeepInfra"
    /\ IsSome(parsed[1])
    /\ IsErr(Unwrap(parsed[1]))

\* Where the request of call c carries the credential.
C8_CredentialPlace(c) ==
    LET r == Unwrap(net[c].req)
        k == args[c].key
    IN  IF k.provider = "Google"
        THEN /\ "Authorization" \notin DOMAIN r.headers
             /\ SubSeq(r.url, Len(r.url) - 1, Len(r.url)) = <<"?key=", k.key>>
        ELSE /\ r.headers = request_headers(k).ok
             /\ "Authorization" \in DOMAIN r.headers
             /\ \A i \in 1..Len(r.url) : r.url[i] \notin {"?key=", k.key}

\* C8: the request tts() sends to Google has no Authorization header and its
\* URL ends with the query key={key}; the request to any other provider has
\* the headers of request_headers(key), Authorization among them, and a URL
\* without the key.
C8_CredentialInOnePlace ==
    \A c \in Calls : IsSome(net[c].req) => C8_CredentialPlace(c)

C8_Witness ==
    /\ IsSome(net[1].req)
    /\ args[1].key.provider = "Google"
    /\ DOMAIN Unwrap(net[1].req).headers = {"Content-Type"}
    /\ Unwrap(net[1].req).url[4] = args[1].key.key

\* The locals and the request of call c are those of its own arguments.
C9_OwnLocals(c) ==
    LET a == args[c]
    IN  /\ IsSome(url[c]) => url[c] = Some(address(a.key, a.model).ok)
        /\ IsSome(body[c]) =>
              body[c] = Some(BuildBody(a.key, a.config, a.model, a.text).ok)
        /\ IsSome(headers[c]) => headers[c] = Some(TtsHeaders(a.key).ok)
        /\ IsSome(net[c].req) =>
              Unwrap(net[c].req) =
                  Request(address(a.key, a.model).ok, TtsHeaders(a.key).ok,
                          BuildBody(a.key, a.config, a.model, a.text).ok)

\* The outcome of call c is that of tts() on its own arguments and answer.
C9_OwnResult(c) ==
    /\ pc[c] = "panicked" => ret[c] = Some(ttsOutcome(args[c], TransportError))
    /\ (pc[c] = "returned" /\ net[c].req = None) =>
          ret[c] = Some(ttsOutcome(args[c], TransportError))
    /\ (pc[c] = "returned" /\ IsSome(net[c].req)) =>
          ret[c] = Some(ttsOutcome(args[c], Unwrap(net[c].reply)))

\* C9: in two interleaved calls with different providers, each call's address,
\* body, headers, request and returned value are those its own arguments and
\* its own transport answer give when the call runs alone.
C9_NoInterference ==
    \A c \in Calls : C9_OwnLocals(c) /\ C9_OwnResult(c)

C9_Witness ==
    /\ pc[1] = "returned"
    /\ pc[2] = "returned"
    /\ ReturnedOk(1)
    /\ ReturnedOk(2)
    /\ args[1].key.provider = "Google"
    /\ args[2].key.provider = "DeepInfra"
    /\ Unwrap(net[1].req).body # Unwrap(net[2].req).body
    /\ Unwrap(ret[1]).ok.resp # Unwrap(ret[2]).ok.resp

\* A call that aborts while it builds the request, or whose headers fail.
C10_FailsBeforeSend(a) ==
    \/ a.key.provider \notin {"DeepInfra", "Hyperbolic", "OpenAI", "Google"}
    \/ IsSome(a.config.voice) /\ a.key.provider \notin {"OpenAI", "Google", "DeepInfra"}
    \/ IsErr(request_headers(a.key))

\* The requests of call c.
C10_OnePost(c) ==
    /\ posts[c] <= 1
    /\ posts[c] = 1 <=> IsSome(net[c].req)
    /\ IsSome(net[c].req) =>
          /\ IsSome(url[c]) /\ IsSome(body[c]) /\ IsSome(headers[c])
          /\ Unwrap(net[c].req) =
                Request(Unwrap(url[c]), Unwrap(headers[c]), Unwrap(body[c]))
    /\ C10_FailsBeforeSend(args[c]) => posts[c] = 0
    /\ pc[c] = "panicked" => posts[c] = 0
    /\ (pc[c] = "returned" /\ IsSome(net[c].reply)
            /\ IsTransportError(Unwrap(net[c].reply))) =>
          IsErr(Unwrap(ret[c]))

\* C10: a call of tts() issues at most one POST; the POST carries the address,
\* body and headers built before it; a call that aborts in address() or in the
\* voice branch, or whose header construction fails, issues none; a transport
\* failure of the request ends the call with Err, without a SpeechResponse.
C10_AtMostOnePost ==
    \A c \in Calls : Started(c) => C10_OnePost(c)

C10_Witness ==
    /\ pc[1] = "returned"
    /\ posts[1] = 1
    /\ net[1].reply = Some(TransportError)
    /\ ret[1] = Some(Err("reqwest::Error"))

====
